---- MODULE Spec2Model ----
(***************************************************************************)
(* Model of climdex/precipitation.py: the PrecipitationIndices calculator. *)
(*                                                                         *)
(* Amounts are integers in hundredths of a millimetre (1.0 mm = 100), so   *)
(* that the conversion  lambda mm: mm / 10  stays exact on every literal   *)
(* the calculator converts (1.0, 10.0, 20.0 and their images).             *)
(*                                                                         *)
(* A labelled array is a record [dims, freq, v]: dims is the order of the  *)
(* named axes, freq the number of observations per calendar day, and       *)
(* v[t][s] the value at time step t and cell s of the non-time axis (a     *)
(* one-dimensional series has the single cell 1).                          *)
(***************************************************************************)
EXTENDS Integers, Sequences, FiniteSets, TLC

VARIABLES
    X,        \* the input handed to the call: a labelled array or a table
    cfg,      \* the calculator's configuration (time_dim, convert_units_fn)
    pc,       \* "idle" before the call, "done" once it returned or raised
    last,     \* the call that was made: operation and arguments
    steps,    \* the pipeline stages the call ran, in order, a reduction
              \* with the callback it was given
    mask,     \* the boolean buffers the call's reducer computed, per group
    out       \* what the call gave back to the caller

vars == <<X, cfg, pc, last, steps, mask, out>>

----------------------------------------------------------------------------
(* Bounds of the model *)

NDays == 5            \* days of a daily one-dimensional series
DaysPerMonth == 2     \* length of a calendar month, in days
MonthsPerYear == 2    \* length of a calendar year, in months
SubDays == 2          \* days of a sub-daily series
MaxObsPerDay == 2     \* observations per day of a sub-daily series
GridDays == 3         \* days of a two-dimensional input
GridCells == 2        \* cells of the non-time axis of a two-dimensional input
TableDays == 2        \* days of the series held by a table

(* Literals of the source, in hundredths of a millimetre *)
R10Literal == 1000    \* 10.0
R20Literal == 2000    \* 20.0
WetLiteral == 100     \* 1.0
RollWindow == 5       \* rolling({time: 5})
DefaultWetDayThreshold == 0

Vals == {-100, 0, 10, 2500}          \* daily amounts of a daily series
SubVals == {0, 50}                   \* amounts of a sub-daily observation
GridVals == {0, 2500}                \* amounts of a two-dimensional input
VarNames == {"PRCP", "TMAX"}
Periods == {"1M", "1y"}

Identity == [mul |-> 1, div |-> 1]           \* lambda x: x
TenthOf == [mul |-> 1, div |-> 10]           \* lambda mm: mm / 10
TimesTen == [mul |-> 10, div |-> 1]          \* lambda mm: mm * 10
Conversions == {Identity, TenthOf, TimesTen}

----------------------------------------------------------------------------
(* Arithmetic on sequences *)

RECURSIVE SumSeq(_)
SumSeq(s) == IF s = <<>> THEN 0 ELSE Head(s) + SumSeq(Tail(s))

RECURSIVE MaxSeq(_)
MaxSeq(s) ==
    IF Len(s) = 1 THEN s[1]
    ELSE LET m == MaxSeq(Tail(s)) IN IF s[1] >= m THEN s[1] ELSE m

RECURSIVE MinSeq(_)
MinSeq(s) ==
    IF Len(s) = 1 THEN s[1]
    ELSE LET m == MinSeq(Tail(s)) IN IF s[1] <= m THEN s[1] ELSE m

(* an entry of a masked array: a value <<x>>, or missing *)
NaN == <<>>
Valid(x) == <<x>>

(* sum(skipna=True): missing values contribute nothing *)
RECURSIVE NanSum(_)
NanSum(s) ==
    IF s = <<>> THEN 0
    ELSE (IF Head(s) = NaN THEN 0 ELSE Head(s)[1]) + NanSum(Tail(s))

(* np.sum over a boolean buffer: the number of true entries *)
RECURSIVE CountTrue(_)
CountTrue(s) ==
    IF s = <<>> THEN 0
    ELSE (IF Head(s) THEN 1 ELSE 0) + CountTrue(Tail(s))

(* a unit conversion applied to an amount *)
Apply(fn, x) == (x * fn.mul) \div fn.div

(* self.convert_units_fn(x) *)
convert_units_fn(self, x) == Apply(self.convert_units_fn, x)

----------------------------------------------------------------------------
(* The calendar and the grouping of time steps *)

NDim(a) == Len(a.dims)
NTime(a) == Len(a.v)
NCells(a) == Len(a.v[1])

MonthOf(day) == (day - 1) \div DaysPerMonth
YearOf(day) == MonthOf(day) \div MonthsPerYear
PeriodOf(day, period) == IF period = "1M" THEN MonthOf(day) ELSE YearOf(day)

(* the calendar day an observation falls on *)
DayOf(a, t) == ((t - 1) \div a.freq) + 1

(* the time steps 1..n in calendar order, one group per value of the key;  *)
(* the keys of consecutive time steps never decrease                       *)
SplitBy(n, Key(_)) ==
    [k \in 1..(Key(n) - Key(1) + 1) |->
        LET first == CHOOSE t \in 1..n :
                        /\ Key(t) = Key(1) + k - 1
                        /\ \A u \in 1..(t - 1) : Key(u) # Key(t)
            last_ == CHOOSE t \in 1..n :
                        /\ Key(t) = Key(1) + k - 1
                        /\ \A u \in (t + 1)..n : Key(u) # Key(t)
        IN [i \in 1..(last_ - first + 1) |-> first + i - 1]]

(* resample({time: period}): one group of time steps per calendar period *)
PeriodGroups(a, period) ==
    LET Key(t) == PeriodOf(DayOf(a, t), period) IN SplitBy(NTime(a), Key)

(* groupby('time.year'): one group of time steps per calendar year *)
YearGroups(a) ==
    LET Key(t) == YearOf(DayOf(a, t)) IN SplitBy(NTime(a), Key)

----------------------------------------------------------------------------
(* Raw buffers: what a reduction callback receives *)

(* position of the time axis among the dims: the axis handed to a callback *)
TimeAxis(a) == IF a.dims[1] = "time" THEN 0 ELSE 1

(* the buffer of the time steps g of a, laid out in the order of a.dims *)
Buffer(a, g) ==
    IF NDim(a) = 1 THEN [i \in 1..Len(g) |-> a.v[g[i]][1]]
    ELSE IF a.dims[1] = "time"
         THEN [i \in 1..Len(g) |-> a.v[g[i]]]
         ELSE [s \in 1..NCells(a) |-> [i \in 1..Len(g) |-> a.v[g[i]][s]]]

(* numpy's axis argument: a negative axis counts from the last one *)
NormAxis(axis, ndim) == IF axis < 0 THEN ndim + axis ELSE axis

(* one slice of a two-dimensional buffer along an axis *)
Lane(buf, axis, k) ==
    IF axis = 1 THEN buf[k] ELSE [i \in 1..Len(buf) |-> buf[i][k]]

(* reduction of a buffer along one axis, independently per slice *)
ReduceAxis(buf, ndim, axis, F(_)) ==
    IF ndim = 1 THEN F(buf)
    ELSE LET ax == NormAxis(axis, ndim)
             n == IF ax = 1 THEN Len(buf) ELSE Len(buf[1])
         IN [k \in 1..n |-> F(Lane(buf, ax, k))]

(* elementwise map over a buffer *)
MapBuffer(buf, ndim, F(_)) ==
    IF ndim = 1 THEN [i \in 1..Len(buf) |-> F(buf[i])]
    ELSE [i \in 1..Len(buf) |-> [j \in 1..Len(buf[i]) |-> F(buf[i][j])]]

(* elementwise combination of two buffers of the same shape *)
ZipBuffer(b1, b2, ndim, F(_, _)) ==
    IF ndim = 1 THEN [i \in 1..Len(b1) |-> F(b1[i], b2[i])]
    ELSE [i \in 1..Len(b1) |-> [j \in 1..Len(b1[i]) |-> F(b1[i][j], b2[i][j])]]

(* elementwise combination of two reduced buffers of the same shape *)
ZipReduced(r1, r2, ndim, F(_, _)) ==
    IF ndim = 1 THEN F(r1, r2)
    ELSE [k \in 1..Len(r1) |-> F(r1[k], r2[k])]

----------------------------------------------------------------------------
(* climdex.utils, the helpers every method calls *)

(* a table is looked up by name, a labelled array is returned as it is *)
data_array_or_dataset_var(x, var) ==
    IF x.kind = "array" THEN [ok |-> TRUE, arr |-> x.arr]
    ELSE IF var \in DOMAIN x.vars THEN [ok |-> TRUE, arr |-> x.vars[var]]
    ELSE [ok |-> FALSE, arr |-> <<>>]

(* the observations of each calendar day, summed *)
resample_daily(a) ==
    [dims |-> a.dims,
     freq |-> 1,
     v |-> [d \in 1..(NTime(a) \div a.freq) |->
              [s \in 1..NCells(a) |->
                 SumSeq([i \in 1..a.freq |-> a.v[(d - 1) * a.freq + i][s]])]]]

(* length of the longest run of consecutive TRUE values of a sequence *)
RECURSIVE RunScan(_, _, _)
RunScan(flags, run, best) ==
    IF flags = <<>> THEN best
    ELSE LET r == IF Head(flags) THEN run + 1 ELSE 0 IN
         RunScan(Tail(flags), r, IF r > best THEN r ELSE best)

LongestRun(flags) == RunScan(flags, 0, 0)

(* the longest run along one axis of a boolean buffer, per slice *)
max_consecutive_count(flags, ndim, axis) ==
    ReduceAxis(flags, ndim, axis, LongestRun)

(* the axes max_consecutive_count may run along when none is passed:      *)
(* numpy's two conventions, the first axis or the last one                *)
DefaultAxes == {0, -1}

----------------------------------------------------------------------------
(* The labelled-array operations the methods call *)

(* the rolling sum without center=True: the window of step t is t-4 .. t *)
RollingSum_trailing(a) ==
    LET n == NTime(a)
        lo(t) == IF t - (RollWindow - 1) < 1 THEN 1 ELSE t - (RollWindow - 1)
    IN [a EXCEPT !.v =
          [t \in 1..n |->
             [s \in 1..NCells(a) |->
                SumSeq([i \in 1..(t - lo(t) + 1) |-> a.v[lo(t) + i - 1][s]])]]]

(* rolling({time: 5}, min_periods=1, center=True).sum(), over the whole    *)
(* series: the window of step t is t-2 .. t+2, cut at the series' ends     *)
RollingSum(a) ==
    LET half == RollWindow \div 2
        n == NTime(a)
        lo(t) == IF t - half < 1 THEN 1 ELSE t - half
        hi(t) == IF t + half > n THEN n ELSE t + half
    IN [a EXCEPT !.v =
          [t \in 1..n |->
             [s \in 1..NCells(a) |->
                SumSeq([i \in 1..(hi(t) - lo(t) + 1) |-> a.v[lo(t) + i - 1][s]])]]]

(* X_arr.where(X_arr >= threshold): the other values become missing *)
WhereAtLeast(a, threshold) ==
    [a EXCEPT !.v =
       [t \in 1..NTime(a) |->
          [s \in 1..NCells(a) |->
             IF a.v[t][s] >= threshold THEN Valid(a.v[t][s]) ELSE NaN]]]

(* a reduction along the time axis of each group of time steps *)
ReduceGroups(a, groups, F(_)) ==
    [k \in 1..Len(groups) |->
       ReduceAxis(Buffer(a, groups[k]), NDim(a), TimeAxis(a), F)]

(* what a call gives back: a result, or the error it raised *)
Returned(stages, flags, value) ==
    [status |-> "ok", steps |-> stages, mask |-> flags, value |-> value]

Raised(error, stages) ==
    [status |-> error, steps |-> stages, mask |-> <<>>, value |-> <<>>]

----------------------------------------------------------------------------
(* The reduction callbacks: each receives a raw buffer and the index of    *)
(* the time axis in it, and gives the mask it computed and its result      *)

(* _count_rnmm with the comparison inverted *)
_count_rnmm_inverted(self, nmm, x, ndim, axis) ==
    LET flags == MapBuffer(x, ndim, LAMBDA v : v < convert_units_fn(self, nmm))
    IN [mask |-> flags, value |-> ReduceAxis(flags, ndim, axis, CountTrue)]

_count_rnmm(self, nmm, x, ndim, axis) ==
    LET flags == MapBuffer(x, ndim, LAMBDA v : v >= convert_units_fn(self, nmm))
    IN [mask |-> flags, value |-> ReduceAxis(flags, ndim, axis, CountTrue)]

(* _sdii with the wet-day count used as the divisor unguarded *)
_sdii_unguarded(self, x, ndim, axis) ==
    LET has_precip == MapBuffer(x, ndim, LAMBDA v : v >= convert_units_fn(self, WetLiteral))
        num_wet_days == ReduceAxis(has_precip, ndim, axis, CountTrue)
        wet_amounts == ZipBuffer(has_precip, x, ndim, LAMBDA f, v : IF f THEN v ELSE 0)
        total == ReduceAxis(wet_amounts, ndim, axis, SumSeq)
    IN [mask |-> has_precip,
        value |-> ZipReduced(total, num_wet_days, ndim, LAMBDA t, n : <<t, n>>)]

_sdii(self, x, ndim, axis) ==
    LET has_precip == MapBuffer(x, ndim, LAMBDA v : v >= convert_units_fn(self, WetLiteral))
        num_wet_days == ReduceAxis(has_precip, ndim, axis, CountTrue)
        wet_amounts == ZipBuffer(has_precip, x, ndim, LAMBDA f, v : IF f THEN v ELSE 0)
        total == ReduceAxis(wet_amounts, ndim, axis, SumSeq)
        divisor == ZipReduced(num_wet_days, num_wet_days, ndim,
                              LAMBDA n, m : IF n > 0 THEN n ELSE 1)
    IN [mask |-> has_precip,
        value |-> ZipReduced(total, divisor, ndim, LAMBDA t, n : <<t, n>>)]

(* the axis is received and not handed on: the run is counted along the    *)
(* axis max_consecutive_count takes by default (dflt)                      *)
_cdd(self, x, ndim, axis, dflt) ==
    LET has_no_precip == MapBuffer(x, ndim, LAMBDA v : v <= convert_units_fn(self, WetLiteral))
    IN [mask |-> has_no_precip,
        value |-> max_consecutive_count(has_no_precip, ndim, dflt)]

(* _cwd comparing against the literal 1.0 as written, unconverted *)
_cwd_raw_literal(self, x, ndim, axis, dflt) ==
    LET has_precip == MapBuffer(x, ndim, LAMBDA v : v >= WetLiteral)
    IN [mask |-> has_precip,
        value |-> max_consecutive_count(has_precip, ndim, dflt)]

_cwd(self, x, ndim, axis, dflt) ==
    LET has_precip == MapBuffer(x, ndim, LAMBDA v : v >= convert_units_fn(self, WetLiteral))
    IN [mask |-> has_precip,
        value |-> max_consecutive_count(has_precip, ndim, dflt)]

(* the stage that counts the runs, with the axis it counted along *)
RunAxisLabel(a, dflt) ==
    IF NormAxis(dflt, NDim(a)) = 0 THEN "max_consecutive_count(axis 0)"
    ELSE "max_consecutive_count(axis 1)"

(* groupby(...).reduce(f) and resample(...).reduce(f, dim): the callback   *)
(* applied to the buffer of each group, with the index of the time axis    *)
ApplyGroups(a, groups, F(_, _, _)) ==
    [k \in 1..Len(groups) |-> F(Buffer(a, groups[k]), NDim(a), TimeAxis(a))]

Values(rs) == [k \in 1..Len(rs) |-> rs[k].value]
Masks(rs) == [k \in 1..Len(rs) |-> rs[k].mask]

----------------------------------------------------------------------------
(* The methods of PrecipitationIndices *)

(* rx1day answering a missing variable with an empty result *)
rx1day_swallow(self, x, period, varname) ==
    LET e == data_array_or_dataset_var(x, varname) IN
    IF ~e.ok THEN Returned(<<"extract", "resample_daily", "resample_max">>, <<>>, <<>>)
    ELSE LET X_arr == resample_daily(e.arr) IN
         Returned(<<"extract", "resample_daily", "resample_max">>, <<>>,
                  ReduceGroups(X_arr, PeriodGroups(X_arr, period), MaxSeq))

rx1day(self, x, period, varname) ==
    LET e == data_array_or_dataset_var(x, varname) IN
    IF ~e.ok THEN Raised("LookupError", <<"extract">>)
    ELSE LET X_arr == resample_daily(e.arr) IN
         Returned(<<"extract", "resample_daily", "resample_max">>, <<>>,
                  ReduceGroups(X_arr, PeriodGroups(X_arr, period), MaxSeq))

(* rx5day reduced with the minimum of each period *)
rx5day_min(self, x, period, varname) ==
    LET e == data_array_or_dataset_var(x, varname) IN
    IF ~e.ok THEN Raised("LookupError", <<"extract">>)
    ELSE LET X_arr == resample_daily(e.arr)
             rolled == RollingSum(X_arr)
         IN Returned(<<"extract", "resample_daily", "rolling_sum", "resample_max">>, <<>>,
                     ReduceGroups(rolled, PeriodGroups(rolled, period), MinSeq))

rx5day(self, x, period, varname) ==
    LET e == data_array_or_dataset_var(x, varname) IN
    IF ~e.ok THEN Raised("LookupError", <<"extract">>)
    ELSE LET X_arr == resample_daily(e.arr)
             rolled == RollingSum(X_arr)
         IN Returned(<<"extract", "resample_daily", "rolling_sum", "resample_max">>, <<>>,
                     ReduceGroups(rolled, PeriodGroups(rolled, period), MaxSeq))

annual_rnmm(self, x, nmm, varname) ==
    LET e == data_array_or_dataset_var(x, varname) IN
    IF ~e.ok THEN Raised("LookupError", <<"extract">>)
    ELSE LET X_arr == resample_daily(e.arr)
             rs == ApplyGroups(X_arr, YearGroups(X_arr),
                               LAMBDA b, n, ax : _count_rnmm(self, nmm, b, n, ax))
         IN Returned(<<"extract", "resample_daily", "reduce(_count_rnmm)">>, Masks(rs), Values(rs))

annual_r10mm(self, x, varname) ==
    annual_rnmm(self, x, convert_units_fn(self, R10Literal), varname)

annual_r20mm(self, x, varname) ==
    annual_rnmm(self, x, convert_units_fn(self, R20Literal), varname)

(* prcptot masking below the recommended 1 mm whatever threshold is passed *)
prcptot_recommended(self, x, period, wet_day_threshold, varname) ==
    LET e == data_array_or_dataset_var(x, varname) IN
    IF ~e.ok THEN Raised("LookupError", <<"extract">>)
    ELSE LET X_arr == resample_daily(e.arr)
             masked == WhereAtLeast(X_arr, WetLiteral)
         IN Returned(<<"extract", "resample_daily", "where", "resample_sum">>, <<>>,
                     ReduceGroups(masked, PeriodGroups(masked, period), NanSum))

prcptot(self, x, period, wet_day_threshold, varname) ==
    LET e == data_array_or_dataset_var(x, varname) IN
    IF ~e.ok THEN Raised("LookupError", <<"extract">>)
    ELSE LET X_arr == resample_daily(e.arr)
             masked == WhereAtLeast(X_arr, wet_day_threshold)
         IN Returned(<<"extract", "resample_daily", "where", "resample_sum">>, <<>>,
                     ReduceGroups(masked, PeriodGroups(masked, period), NanSum))

sdii(self, x, period, varname) ==
    LET e == data_array_or_dataset_var(x, varname) IN
    IF ~e.ok THEN Raised("LookupError", <<"extract">>)
    ELSE LET X_arr == resample_daily(e.arr)
             rs == ApplyGroups(X_arr, PeriodGroups(X_arr, period),
                               LAMBDA b, n, ax : _sdii(self, b, n, ax))
         IN Returned(<<"extract", "resample_daily", "reduce(_sdii)">>, Masks(rs), Values(rs))

cdd(self, x, period, varname, dflt) ==
    LET e == data_array_or_dataset_var(x, varname) IN
    IF ~e.ok THEN Raised("LookupError", <<"extract">>)
    ELSE LET X_arr == resample_daily(e.arr)
             rs == ApplyGroups(X_arr, PeriodGroups(X_arr, period),
                               LAMBDA b, n, ax : _cdd(self, b, n, ax, dflt))
         IN Returned(<<"extract", "resample_daily", "reduce(_cdd)", RunAxisLabel(X_arr, dflt)>>,
                     Masks(rs), Values(rs))

cwd(self, x, period, varname, dflt) ==
    LET e == data_array_or_dataset_var(x, varname) IN
    IF ~e.ok THEN Raised("LookupError", <<"extract">>)
    ELSE LET X_arr == resample_daily(e.arr)
             rs == ApplyGroups(X_arr, PeriodGroups(X_arr, period),
                               LAMBDA b, n, ax : _cwd(self, b, n, ax, dflt))
         IN Returned(<<"extract", "resample_daily", "reduce(_cwd)", RunAxisLabel(X_arr, dflt)>>,
                     Masks(rs), Values(rs))

----------------------------------------------------------------------------
(* The inputs *)

Series(n, vals) == [1..n -> [1..1 -> vals]]
Grid(n, m, vals) == [1..n -> [1..m -> vals]]

DailySeries ==
    {[dims |-> <<"time">>, freq |-> 1, v |-> v] : v \in Series(NDays, Vals)}

SubDailySeries ==
    UNION {{[dims |-> <<"time">>, freq |-> f, v |-> v] :
                v \in Series(SubDays * f, SubVals)} : f \in 2..MaxObsPerDay}

GridArrays ==
    {[dims |-> d, freq |-> 1, v |-> v] :
        d \in {<<"time", "x">>, <<"x", "time">>},
        v \in Grid(GridDays, GridCells, GridVals)}

TableSeries ==
    {[dims |-> <<"time">>, freq |-> 1, v |-> v] : v \in Series(TableDays, GridVals)}

Tables ==
    UNION {[names -> TableSeries] : names \in SUBSET VarNames}

Inputs ==
    {[kind |-> "array", arr |-> a] :
        a \in DailySeries \cup SubDailySeries \cup GridArrays}
    \cup {[kind |-> "table", vars |-> t] : t \in Tables}

Calculators ==
    {[time_dim |-> "time", convert_units_fn |-> fn] : fn \in Conversions}

(* the variable names the calls ask for: a labelled array is never looked  *)
(* up by name, so the default is enough for it                             *)
VarNamesFor(x) == IF x.kind = "array" THEN {"PRCP"} ELSE VarNames

NmmChoices == {R10Literal, R20Literal}
WetDayThresholds == {DefaultWetDayThreshold, WetLiteral}

----------------------------------------------------------------------------
(* The state machine: a calculator is built, then one method is called *)

NoCall == [op |-> "none", period |-> "", nmm |-> 0, threshold |-> 0, varname |-> ""]

Init ==
    /\ X \in Inputs
    /\ cfg \in Calculators
    /\ pc = "idle"
    /\ last = NoCall
    /\ steps = <<>>
    /\ mask = <<>>
    /\ out = [status |-> "none", value |-> <<>>]

Finish(r, call) ==
    /\ pc = "idle"
    /\ pc' = "done"
    /\ last' = call
    /\ steps' = r.steps
    /\ mask' = r.mask
    /\ out' = [status |-> r.status, value |-> r.value]
    /\ UNCHANGED <<X, cfg>>

Rx1day ==
    \E period \in Periods, varname \in VarNamesFor(X) :
        Finish(rx1day(cfg, X, period, varname),
               [NoCall EXCEPT !.op = "rx1day", !.period = period, !.varname = varname])

Rx5day ==
    \E period \in Periods, varname \in VarNamesFor(X) :
        Finish(rx5day(cfg, X, period, varname),
               [NoCall EXCEPT !.op = "rx5day", !.period = period, !.varname = varname])

AnnualRnmm ==
    \E nmm \in NmmChoices, varname \in VarNamesFor(X) :
        Finish(annual_rnmm(cfg, X, nmm, varname),
               [NoCall EXCEPT !.op = "annual_rnmm", !.nmm = nmm, !.varname = varname])

AnnualR10mm ==
    \E varname \in VarNamesFor(X) :
        Finish(annual_r10mm(cfg, X, varname),
               [NoCall EXCEPT !.op = "annual_r10mm", !.varname = varname])

AnnualR20mm ==
    \E varname \in VarNamesFor(X) :
        Finish(annual_r20mm(cfg, X, varname),
               [NoCall EXCEPT !.op = "annual_r20mm", !.varname = varname])

Prcptot ==
    \E period \in Periods, threshold \in WetDayThresholds, varname \in VarNamesFor(X) :
        Finish(prcptot(cfg, X, period, threshold, varname),
               [NoCall EXCEPT !.op = "prcptot", !.period = period,
                              !.threshold = threshold, !.varname = varname])

Sdii ==
    \E period \in Periods, varname \in VarNamesFor(X) :
        Finish(sdii(cfg, X, period, varname),
               [NoCall EXCEPT !.op = "sdii", !.period = period, !.varname = varname])

Cdd ==
    \E period \in Periods, varname \in VarNamesFor(X), dflt \in DefaultAxes :
        Finish(cdd(cfg, X, period, varname, dflt),
               [NoCall EXCEPT !.op = "cdd", !.period = period, !.varname = varname])

Cwd ==
    \E period \in Periods, varname \in VarNamesFor(X), dflt \in DefaultAxes :
        Finish(cwd(cfg, X, period, varname, dflt),
               [NoCall EXCEPT !.op = "cwd", !.period = period, !.varname = varname])

Next ==
    \/ Rx1day
    \/ Rx5day
    \/ AnnualRnmm
    \/ AnnualR10mm
    \/ AnnualR20mm
    \/ Prcptot
    \/ Sdii
    \/ Cdd
    \/ Cwd

Spec == Init /\ [][Next]_vars

----------------------------------------------------------------------------
(* Vocabulary of the properties; d stands for the daily series of the call *)

Done(op) == pc = "done" /\ last.op = op /\ out.status = "ok"

Succeeded == pc = "done" /\ out.status = "ok"

(* the daily series the call worked on *)
Daily == resample_daily(data_array_or_dataset_var(X, last.varname).arr)

Days(d) == 1..NTime(d)
Cells(d) == 1..NCells(d)

(* the entry of a reduced result for cell s *)
At(d, r, s) == IF NDim(d) = 1 THEN r ELSE r[s]

(* a reduced result has one entry per cell of the non-time axes *)
Shaped(d, r) == NDim(d) = 2 => Len(r) = NCells(d)

(* the entry of a raw buffer for the i-th day of its group and cell s *)
FlagAt(d, buf, i, s) ==
    IF NDim(d) = 1 THEN buf[i]
    ELSE IF d.dims[1] = "time" THEN buf[i][s] ELSE buf[s][i]

RECURSIVE SumOver(_, _)
SumOver(S, f) ==
    IF S = {} THEN 0
    ELSE LET t == CHOOSE t \in S : TRUE IN f[t] + SumOver(S \ {t}, f)

MaxOver(S, f) == CHOOSE m \in {f[t] : t \in S} : \A t \in S : f[t] <= m

(* the daily totals of cell s, by day *)
Column(d, s) == [t \in Days(d) |-> d.v[t][s]]

(* the days of a group, as a set *)
DaysOf(g) == {g[i] : i \in 1..Len(g)}

NonNegative(d) == \A t \in Days(d), s \in Cells(d) : d.v[t][s] >= 0
AllZero(d) == \A t \in Days(d), s \in Cells(d) : d.v[t][s] = 0

(* longest run of consecutive days of g on which P holds for cell s *)
LongestRunOf(d, g, s, P(_)) ==
    CHOOSE m \in 0..Len(g) :
        /\ \E i \in 1..(Len(g) - m + 1) : \A j \in i..(i + m - 1) : P(d.v[g[j]][s])
        /\ \A k \in (m + 1)..Len(g) :
              ~ \E i \in 1..(Len(g) - k + 1) : \A j \in i..(i + k - 1) : P(d.v[g[j]][s])

(* the call's result has, for every group and cell, the expected entry *)
EveryEntry(d, groups, Expected(_, _)) ==
    /\ Len(out.value) = Len(groups)
    /\ \A k \in 1..Len(groups) :
          /\ Shaped(d, out.value[k])
          /\ \A s \in Cells(d) : At(d, out.value[k], s) = Expected(groups[k], s)

(* the masks the call computed hold, for every day and cell, P of the total *)
MaskIs(d, groups, P(_)) ==
    /\ Len(mask) = Len(groups)
    /\ \A k \in 1..Len(groups), s \in Cells(d) :
          \A i \in 1..Len(groups[k]) :
              FlagAt(d, mask[k], i, s) = P(d.v[groups[k][i]][s])

----------------------------------------------------------------------------
(* C1: annual_r10mm(X) gives what annual_rnmm(X, 10.0) gives, and          *)
(* annual_r20mm(X) what annual_rnmm(X, 20.0) gives: the literal is handed  *)
(* on unconverted, and converted once where the days are compared.         *)
C1_PresetsAreRnmmOfLiteral ==
    /\ Done("annual_r10mm") =>
          out.value = annual_rnmm(cfg, X, R10Literal, last.varname).value
    /\ Done("annual_r20mm") =>
          out.value = annual_rnmm(cfg, X, R20Literal, last.varname).value

(* C2: the threshold a daily total is compared against is the converted    *)
(* literal: annual_rnmm counts, per year, the days >= c(nmm); sdii and cwd *)
(* take a day as wet iff it is >= c(1.0); cdd as dry iff it is <= c(1.0).  *)
C2_ThresholdIsConverted ==
    Succeeded =>
        LET d == Daily
            wet == convert_units_fn(cfg, WetLiteral)
            thr == convert_units_fn(cfg, last.nmm)
        IN /\ last.op = "annual_rnmm" =>
                /\ MaskIs(d, YearGroups(d), LAMBDA v : v >= thr)
                /\ EveryEntry(d, YearGroups(d),
                       LAMBDA g, s : Cardinality({t \in DaysOf(g) : d.v[t][s] >= thr}))
           /\ last.op \in {"sdii", "cwd"} =>
                MaskIs(d, PeriodGroups(d, last.period), LAMBDA v : v >= wet)
           /\ last.op = "cdd" =>
                MaskIs(d, PeriodGroups(d, last.period), LAMBDA v : v <= wet)

(* cwd ran under mm / 10 on a series with a day that is wet by the         *)
(* converted threshold and would not be by the literal 1.0                 *)
C2_Witness ==
    /\ Done("cwd")
    /\ cfg.convert_units_fn = TenthOf
    /\ \E t \in Days(Daily), s \in Cells(Daily) :
          /\ Daily.v[t][s] >= convert_units_fn(cfg, WetLiteral)
          /\ Daily.v[t][s] < WetLiteral

(* C3: sdii of a period is the sum of the daily totals of its wet days     *)
(* over their number, a day being wet iff it is >= c(1.0); with no wet day *)
(* the divisor is 1 and the result 0. [2,0,3,0,5] gives 10/3.              *)
C3_SdiiIsWetDayMean ==
    /\ Done("sdii") =>
          LET d == Daily
              g == PeriodGroups(d, last.period)
          IN /\ Len(out.value) = Len(g)
             /\ \A k \in 1..Len(g), s \in Cells(d) :
                   LET wet == {t \in DaysOf(g[k]) :
                                  d.v[t][s] >= convert_units_fn(cfg, WetLiteral)}
                       ratio == At(d, out.value[k], s)
                   IN /\ ratio[1] = SumOver(wet, Column(d, s))
                      /\ ratio[2] = IF wet = {} THEN 1 ELSE Cardinality(wet)
                      /\ ratio[2] > 0
                      /\ wet = {} => ratio[1] = 0
    /\ _sdii([time_dim |-> "time", convert_units_fn |-> Identity],
             <<200, 0, 300, 0, 500>>, 1, 0).value = <<1000, 3>>

(* sdii ran on a series with a period of two wet days and a period with    *)
(* rain on no wet day                                                      *)
C3_Witness ==
    /\ Done("sdii")
    /\ NDim(Daily) = 1
    /\ \E k \in 1..Len(out.value) : out.value[k][2] >= 2
    /\ \E k \in 1..Len(out.value) :
          /\ out.value[k] = <<0, 1>>
          /\ \E t \in DaysOf(PeriodGroups(Daily, last.period)[k]) : Daily.v[t][1] > 0

(* C4: for every period and every cell of the non-time axes, cdd is the    *)
(* longest run of consecutive days <= c(1.0) and cwd the longest run of    *)
(* consecutive days >= c(1.0), counted along the time axis wherever that   *)
(* axis lies in the buffer; 0 when no day qualifies.                       *)
C4_RunsAlongTimeAxis ==
    Succeeded =>
        LET d == Daily
            wet == convert_units_fn(cfg, WetLiteral)
        IN /\ last.op = "cdd" =>
                EveryEntry(d, PeriodGroups(d, last.period),
                    LAMBDA g, s : LongestRunOf(d, g, s, LAMBDA v : v <= wet))
           /\ last.op = "cwd" =>
                EveryEntry(d, PeriodGroups(d, last.period),
                    LAMBDA g, s : LongestRunOf(d, g, s, LAMBDA v : v >= wet))

(* C5: in every year the count of annual_r10mm is at least the count of    *)
(* annual_r20mm, under every configured conversion.                        *)
C5_R10AtLeastR20 ==
    /\ Done("annual_r10mm") =>
          LET d == Daily
              r20 == annual_r20mm(cfg, X, last.varname).value
          IN /\ Len(out.value) = Len(r20)
             /\ \A k \in 1..Len(r20), s \in Cells(d) :
                   At(d, out.value[k], s) >= At(d, r20[k], s)
    /\ Done("annual_r20mm") =>
          LET d == Daily
              r10 == annual_r10mm(cfg, X, last.varname).value
          IN /\ Len(out.value) = Len(r10)
             /\ \A k \in 1..Len(r10), s \in Cells(d) :
                   At(d, r10[k], s) >= At(d, out.value[k], s)

(* annual_r10mm counted more days of a year than annual_r20mm, which       *)
(* counted some                                                            *)
C5_Witness ==
    /\ Done("annual_r10mm")
    /\ LET r20 == annual_r20mm(cfg, X, last.varname).value IN
       \E k \in 1..Len(r20), s \in Cells(Daily) :
          /\ At(Daily, out.value[k], s) > At(Daily, r20[k], s)
          /\ At(Daily, r20[k], s) > 0

(* C6: on non-negative daily totals, rx1day of a period is at most rx5day  *)
(* of the same period.                                                     *)
C6_Rx1dayAtMostRx5day ==
    /\ Done("rx5day") =>
          LET d == Daily
              r1 == rx1day(cfg, X, last.period, last.varname).value
          IN NonNegative(d) =>
                /\ Len(out.value) = Len(r1)
                /\ \A k \in 1..Len(r1), s \in Cells(d) :
                      At(d, r1[k], s) <= At(d, out.value[k], s)
    /\ Done("rx1day") =>
          LET d == Daily
              r5 == rx5day(cfg, X, last.period, last.varname).value
          IN NonNegative(d) =>
                /\ Len(out.value) = Len(r5)
                /\ \A k \in 1..Len(r5), s \in Cells(d) :
                      At(d, out.value[k], s) <= At(d, r5[k], s)

(* rx5day ran on non-negative totals and exceeded the wettest day of a     *)
(* period                                                                  *)
C6_Witness ==
    /\ Done("rx5day")
    /\ NonNegative(Daily)
    /\ LET r1 == rx1day(cfg, X, last.period, last.varname).value IN
       \E k \in 1..Len(r1), s \in Cells(Daily) :
          /\ At(Daily, r1[k], s) > 0
          /\ At(Daily, r1[k], s) < At(Daily, out.value[k], s)

(* C7, as claimed: for every input, prcptot with wet_day_threshold=0 is    *)
(* the plain sum of all daily totals of the period.                        *)
TotalIsPlainSum(d) ==
    EveryEntry(d, PeriodGroups(d, last.period),
               LAMBDA g, s : SumOver(DaysOf(g), Column(d, s)))

C7_TotalIsPlainSum ==
    (Done("prcptot") /\ last.threshold = 0) => TotalIsPlainSum(Daily)

(* C7, amended: on non-negative daily totals, prcptot with                 *)
(* wet_day_threshold=0 is the plain sum of all daily totals of the period. *)
C7_TotalIsPlainSumNonNegative ==
    (Done("prcptot") /\ last.threshold = 0) =>
        LET d == Daily IN NonNegative(d) => TotalIsPlainSum(d)

(* prcptot ran with threshold 0 on non-negative totals, some of them       *)
(* positive and below 1 mm                                                 *)
C7_Witness ==
    /\ Done("prcptot")
    /\ last.threshold = 0
    /\ NonNegative(Daily)
    /\ \E t \in Days(Daily), s \in Cells(Daily) :
          Daily.v[t][s] > 0 /\ Daily.v[t][s] < WetLiteral
    /\ \E k \in 1..Len(out.value), s \in Cells(Daily) : At(Daily, out.value[k], s) > 0

(* C8: under the identity conversion, on an input whose daily totals are   *)
(* all zero, rx1day, rx5day, prcptot, sdii and cwd of a period are 0,      *)
(* annual_rnmm is 0 for every threshold above 0, and cdd of a period is    *)
(* the number of its days.                                                 *)
C8_AllZeroInput ==
    (Succeeded /\ cfg.convert_units_fn = Identity) =>
        LET d == Daily IN
        AllZero(d) =>
            /\ last.op \in {"rx1day", "rx5day", "prcptot", "cwd"} =>
                  EveryEntry(d, PeriodGroups(d, last.period), LAMBDA g, s : 0)
            /\ last.op = "sdii" =>
                  EveryEntry(d, PeriodGroups(d, last.period), LAMBDA g, s : <<0, 1>>)
            /\ (last.op = "annual_rnmm" /\ last.nmm > 0) =>
                  EveryEntry(d, YearGroups(d), LAMBDA g, s : 0)
            /\ last.op = "cdd" =>
                  EveryEntry(d, PeriodGroups(d, last.period), LAMBDA g, s : Len(g))

(* C9: a call on a table that does not hold the requested variable raises  *)
(* a lookup error from the extraction, the first stage: no other stage     *)
(* runs and no result is returned.                                         *)
MissingVariable ==
    pc = "done" /\ X.kind = "table" /\ last.varname \notin DOMAIN X.vars

C9_MissingVariableRaisesFirst ==
    MissingVariable =>
        /\ out.status = "LookupError"
        /\ steps = <<"extract">>
        /\ mask = <<>>
        /\ out.value = <<>>

(* rx1day was asked for a variable missing from a table that holds another *)
C9_Witness ==
    /\ MissingVariable
    /\ last.op = "rx1day"
    /\ DOMAIN X.vars # {}

(* C10: rx5day of a period is the maximum, over its days d, of the sum of  *)
(* the daily totals of the days d-2 .. d+2 that exist in the whole daily   *)
(* series, days of adjacent periods included.                              *)
WindowOf(n, t) == {j \in (t - 2)..(t + 2) : 1 <= j /\ j <= n}

C10_Rx5dayWindowSpansPeriods ==
    Done("rx5day") =>
        LET d == Daily
            n == NTime(d)
            five(s) == [t \in 1..n |-> SumOver(WindowOf(n, t), Column(d, s))]
        IN /\ EveryEntry(d, PeriodGroups(d, last.period),
                         LAMBDA g, s : MaxOver(DaysOf(g), five(s)))
           /\ \A t \in 1..n :
                 Cardinality(WindowOf(n, t)) >= 1 /\ Cardinality(WindowOf(n, t)) <= 5

(* rx5day of a month exceeded all the precipitation that fell in the month *)
C10_Witness ==
    /\ Done("rx5day")
    /\ last.period = "1M"
    /\ NonNegative(Daily)
    /\ LET g == PeriodGroups(Daily, last.period) IN
       \E k \in 1..Len(g), s \in Cells(Daily) :
          At(Daily, out.value[k], s) > SumOver(DaysOf(g[k]), Column(Daily, s))

====
